---- MODULE Spec2Model ----
(***************************************************************************)
(* Model of prolog_agent/stream_patch.py: the patched receive_messages     *)
(* async generator (buffered line/JSON decoding of the CLI's stdout, the  *)
(* concurrent stderr drain, the end-of-stream flush and the exit-status   *)
(* correlation) and apply_patch.                                          *)
(*                                                                         *)
(* Text is a sequence of one-character strings.  The stdout alphabet is   *)
(* Chars; on that alphabet json_loads below accepts exactly the texts     *)
(* Python's json.loads accepts (numbers written with the digit 1, arrays  *)
(* of at most one element since there is no comma, and no object since    *)
(* there is neither a closing brace nor a quote).                         *)
(***************************************************************************)
EXTENDS Integers, Sequences, FiniteSets, TLC

\* ------------------------------------------------------------------ bounds
MaxLen == 5
MaxChunks == 2
MaxStderr == 2
MaxCalls == 3

\* ------------------------------------------------------------------- text
NL == "\n"
SP == " "
Chars == {"[", "]", "{", "1", SP, NL}

\* str.strip()/lstrip() remove these; json's WHITESPACE accepts the same two
\* characters of the alphabet.
Whitespace == {SP, NL}

RECURSIVE LStrip(_)
LStrip(s) ==
    IF s # <<>> /\ Head(s) \in Whitespace THEN LStrip(Tail(s)) ELSE s

RECURSIVE RStrip(_)
RStrip(s) ==
    IF s # <<>> /\ s[Len(s)] \in Whitespace
    THEN RStrip(SubSeq(s, 1, Len(s) - 1))
    ELSE s

Strip(s) == RStrip(LStrip(s))

StartsWith(s, c) == s # <<>> /\ Head(s) = c

\* '"\n" in buffer'
HasNewline(s) == \E i \in 1..Len(s) : s[i] = NL

\* (mutant) the cut is made at the last newline, as rsplit would
FirstNewline_Last(s) == CHOOSE i \in 1..Len(s) :
                           s[i] = NL /\ \A j \in (i + 1)..Len(s) : s[j] # NL

\* position of the first newline: buffer.split("\n", 1) cuts there
FirstNewline(s) == CHOOSE i \in 1..Len(s) :
                      s[i] = NL /\ \A j \in 1..(i - 1) : s[j] # NL

\* ------------------------------------------------------------ json.loads
\* Decoded values: a number n is <<"num", n>>, an array is <<"arr">> followed
\* by its elements, the empty object is <<"obj">>.
NoValue == <<>>
ParseFail == [ok |-> FALSE, val |-> NoValue, end |-> 0]

RECURSIVE SkipWs(_, _)
SkipWs(s, i) ==
    IF i <= Len(s) /\ s[i] \in Whitespace THEN SkipWs(s, i + 1) ELSE i

\* the digits from position i on: [n |-> their value, end |-> position after]
RECURSIVE ScanNumber(_, _, _)
ScanNumber(s, i, n) ==
    IF i <= Len(s) /\ s[i] = "1"
    THEN ScanNumber(s, i + 1, 10 * n + 1)
    ELSE [n |-> n, end |-> i]

\* JSONDecoder.raw_decode at position i
RECURSIVE ParseValue(_, _)
ParseValue(s, i) ==
    IF i > Len(s) THEN ParseFail
    ELSE IF s[i] = "1" THEN
        LET r == ScanNumber(s, i, 0)
        IN  [ok |-> TRUE, val |-> <<"num", r.n>>, end |-> r.end]
    ELSE IF s[i] = "[" THEN
        LET j == SkipWs(s, i + 1)
        IN  IF j <= Len(s) /\ s[j] = "]"
            THEN [ok |-> TRUE, val |-> <<"arr">>, end |-> j + 1]
            ELSE LET r == ParseValue(s, j)
                     k == SkipWs(s, r.end)
                 IN  IF r.ok /\ k <= Len(s) /\ s[k] = "]"
                     THEN [ok |-> TRUE, val |-> <<"arr", r.val>>, end |-> k + 1]
                     ELSE ParseFail
    ELSE IF s[i] = "{" THEN
        LET j == SkipWs(s, i + 1)
        IN  IF j <= Len(s) /\ s[j] = "}"
            THEN [ok |-> TRUE, val |-> <<"obj">>, end |-> j + 1]
            ELSE ParseFail
    ELSE ParseFail

\* json.loads(s): one value, surrounded by optional whitespace, nothing else
json_loads(s) ==
    LET r == ParseValue(s, SkipWs(s, 1))
    IN  IF r.ok /\ SkipWs(s, r.end) = Len(s) + 1
        THEN [ok |-> TRUE, val |-> r.val]
        ELSE [ok |-> FALSE, val |-> NoValue]


\* ------------------------------------------------- the inner while loop
\* (mutant) the chunk replaces the buffer instead of being appended to it
AppendChunk_Forget(buf, chunk) == chunk

\* Line 73: buffer += chunk
AppendChunk(buf, chunk) == buf \o chunk

\* Lines 78-95 for one `line` split off the buffer, `rest` being what follows
\* its newline.  kind "continue": blank line, dropped (line 80); "yield": the
\* generator suspends at line 88 with `data`; "await": json.loads failed, the
\* line is put back and the loop is left (lines 94-95).  `line_str` is the
\* candidate handed to json.loads (<<>> when there was none).
\* (mutant) a line that fails to parse is dropped instead of being put back
TryLine_DropFailed(line, rest) ==
    LET line_str == Strip(line)
    IN  IF line_str = <<>>
        THEN [kind |-> "continue", data |-> NoValue, buffer |-> rest,
              line_str |-> <<>>]
        ELSE IF json_loads(line_str).ok
             THEN [kind |-> "yield", data |-> json_loads(line_str).val,
                   buffer |-> rest, line_str |-> line_str]
             ELSE [kind |-> "await", data |-> NoValue,
                   buffer |-> rest, line_str |-> line_str]

\* (mutant) a line that fails to parse is put back in its trimmed form
TryLine_PutBackTrimmed(line, rest) ==
    LET line_str == Strip(line)
    IN  IF line_str = <<>>
        THEN [kind |-> "continue", data |-> NoValue, buffer |-> rest,
              line_str |-> <<>>]
        ELSE IF json_loads(line_str).ok
             THEN [kind |-> "yield", data |-> json_loads(line_str).val,
                   buffer |-> rest, line_str |-> line_str]
             ELSE [kind |-> "await", data |-> NoValue,
                   buffer |-> line_str \o <<NL>> \o rest,
                   line_str |-> line_str]

TryLine(line, rest) ==
    LET line_str == Strip(line)
    IN  IF line_str = <<>>
        THEN [kind |-> "continue", data |-> NoValue, buffer |-> rest,
              line_str |-> <<>>]
        ELSE IF json_loads(line_str).ok
             THEN [kind |-> "yield", data |-> json_loads(line_str).val,
                   buffer |-> rest, line_str |-> line_str]
             ELSE [kind |-> "await", data |-> NoValue,
                   buffer |-> line \o <<NL>> \o rest, line_str |-> line_str]

RECURSIVE ProcessLines(_)

\* (mutant) a buffer without a newline is decoded as soon as it parses
ProcessLines_Eager(buf) ==
    IF ~HasNewline(buf)
    THEN IF json_loads(Strip(buf)).ok
         THEN [kind |-> "yield", data |-> json_loads(Strip(buf)).val,
               buffer |-> <<>>, line_str |-> Strip(buf)]
         ELSE [kind |-> "await", data |-> NoValue, buffer |-> buf,
               line_str |-> <<>>]
    ELSE LET p == FirstNewline(buf)
             r == TryLine(SubSeq(buf, 1, p - 1), SubSeq(buf, p + 1, Len(buf)))
         IN  IF r.kind = "continue" THEN ProcessLines(r.buffer) ELSE r

\* Lines 76-95, run from the current buffer until the generator suspends:
\* at the yield of line 88, or back at the async for of line 72 waiting for
\* the next chunk (kind "await").
ProcessLines(buf) ==
    IF ~HasNewline(buf)
    THEN [kind |-> "await", data |-> NoValue, buffer |-> buf, line_str |-> <<>>]
    ELSE LET p == FirstNewline(buf)
             r == TryLine(SubSeq(buf, 1, p - 1), SubSeq(buf, p + 1, Len(buf)))
         IN  IF r.kind = "continue" THEN ProcessLines(r.buffer) ELSE r

\* ------------------------------------------------- end-of-stream flush
NoError == [type |-> "none"]

JSONDecodeError(doc) == [type |-> "JSONDecodeError", doc |-> doc]
CLIJSONDecodeError(line, original_error) ==
    [type |-> "CLIJSONDecodeError", line |-> line,
     original_error |-> original_error]

\* (mutant) only an opening brace makes the leftover an error
Flush_OnlyBrace(buf) ==
    IF Strip(buf) = <<>>
    THEN [kind |-> "pass", data |-> NoValue, err |-> NoError]
    ELSE IF json_loads(Strip(buf)).ok
         THEN [kind |-> "yield", data |-> json_loads(Strip(buf)).val,
               err |-> NoError]
         ELSE IF StartsWith(LStrip(buf), "{")
              THEN [kind |-> "raise", data |-> NoValue,
                    err |-> CLIJSONDecodeError(buf, JSONDecodeError(Strip(buf)))]
              ELSE [kind |-> "pass", data |-> NoValue, err |-> NoError]

\* (mutant) every leftover that fails to parse is an error, as upstream
Flush_Strict(buf) ==
    IF Strip(buf) = <<>>
    THEN [kind |-> "pass", data |-> NoValue, err |-> NoError]
    ELSE IF json_loads(Strip(buf)).ok
         THEN [kind |-> "yield", data |-> json_loads(Strip(buf)).val,
               err |-> NoError]
         ELSE [kind |-> "raise", data |-> NoValue,
               err |-> CLIJSONDecodeError(buf, JSONDecodeError(Strip(buf)))]

\* (mutant) the leftover is never decoded
Flush_NoYield(buf) ==
    IF Strip(buf) = <<>> \/ json_loads(Strip(buf)).ok
    THEN [kind |-> "pass", data |-> NoValue, err |-> NoError]
    ELSE IF StartsWith(LStrip(buf), "{") \/ StartsWith(LStrip(buf), "[")
         THEN [kind |-> "raise", data |-> NoValue,
               err |-> CLIJSONDecodeError(buf, JSONDecodeError(Strip(buf)))]
         ELSE [kind |-> "pass", data |-> NoValue, err |-> NoError]

\* (mutant) the json.JSONDecodeError is let through unwrapped
Flush_RawError(buf) ==
    IF Strip(buf) = <<>>
    THEN [kind |-> "pass", data |-> NoValue, err |-> NoError]
    ELSE IF json_loads(Strip(buf)).ok
         THEN [kind |-> "yield", data |-> json_loads(Strip(buf)).val,
               err |-> NoError]
         ELSE IF StartsWith(LStrip(buf), "{") \/ StartsWith(LStrip(buf), "[")
              THEN [kind |-> "raise", data |-> NoValue,
                    err |-> JSONDecodeError(Strip(buf))]
              ELSE [kind |-> "pass", data |-> NoValue, err |-> NoError]

\* (mutant) the decode error is kept and the process is waited for first
Flush_Deferred(buf) ==
    IF Strip(buf) = <<>>
    THEN [kind |-> "pass", data |-> NoValue, err |-> NoError]
    ELSE IF json_loads(Strip(buf)).ok
         THEN [kind |-> "yield", data |-> json_loads(Strip(buf)).val,
               err |-> NoError]
         ELSE IF StartsWith(LStrip(buf), "{") \/ StartsWith(LStrip(buf), "[")
              THEN [kind |-> "pass", data |-> NoValue,
                    err |-> CLIJSONDecodeError(buf, JSONDecodeError(Strip(buf)))]
              ELSE [kind |-> "pass", data |-> NoValue, err |-> NoError]

\* Lines 102-110: "yield" the decoded remainder, "raise" CLIJSONDecodeError
\* (it keeps the raw buffer as .line and the json.JSONDecodeError, whose .doc
\* is the text json.loads was given, as .original_error), or "pass".
Flush(buf) ==
    IF Strip(buf) = <<>>
    THEN [kind |-> "pass", data |-> NoValue, err |-> NoError]
    ELSE IF json_loads(Strip(buf)).ok
         THEN [kind |-> "yield", data |-> json_loads(Strip(buf)).val,
               err |-> NoError]
         ELSE IF StartsWith(LStrip(buf), "{") \/ StartsWith(LStrip(buf), "[")
              THEN [kind |-> "raise", data |-> NoValue,
                    err |-> CLIJSONDecodeError(buf, JSONDecodeError(Strip(buf)))]
              ELSE [kind |-> "pass", data |-> NoValue, err |-> NoError]

\* ------------------------------------------------- exit correlation
\* What the stderr stream can deliver as one item.
StderrItems == { <<"E", "r", "r", "O", "R">>,
                 <<SP, "e", "r", "r">>,
                 <<"o", "r", NL>>,
                 <<"o", "k">> }

\* str.lower()
LowerChar(c) == CASE c = "E" -> "e" [] c = "R" -> "r" [] c = "O" -> "o"
                  [] OTHER -> c
Lower(s) == [i \in 1..Len(s) |-> LowerChar(s[i])]

\* 'pat in s'
Contains(s, pat) ==
    \E i \in 0..(Len(s) - Len(pat)) : SubSeq(s, i + 1, i + Len(pat)) = pat

\* "\n".join(lines)
RECURSIVE Join(_)
Join(lines) ==
    IF lines = <<>> THEN <<>>
    ELSE IF Len(lines) = 1 THEN lines[1]
    ELSE lines[1] \o <<NL>> \o Join(Tail(lines))

ErrorWord == <<"e", "r", "r", "o", "r">>

\* Process.returncode: None is <<>>, the integer n is <<n>>.
None == <<>>
ReturnCodes == {None, <<0>>, <<1>>, <<-9>>}

ProcessError(exit_code, stderr) ==
    [type |-> "ProcessError", exit_code |-> exit_code, stderr |-> stderr]

\* (mutant) the marker is looked for without lower()
ExitCorrelate_CaseSensitive(rc, lines) ==
    IF rc \notin {None, <<0>>}
    THEN LET stderr_output == Join(lines)
         IN  IF stderr_output # <<>> /\ Contains(stderr_output, ErrorWord)
             THEN ProcessError(rc[1], stderr_output)
             ELSE NoError
    ELSE NoError

\* Lines 114-121, once process.wait() has returned.
ExitCorrelate(rc, lines) ==
    IF rc \notin {None, <<0>>}
    THEN LET stderr_output == Join(lines)
         IN  IF stderr_output # <<>> /\ Contains(Lower(stderr_output), ErrorWord)
             THEN ProcessError(rc[1], stderr_output)
             ELSE NoError
    ELSE NoError

\* ------------------------------------------------------------------ state
VARIABLES
    self,          \* the transport: which of _process, _stdout_stream,
                   \* _stderr_stream are set
    proc,          \* the CLI process: how much it still writes to stdout
                   \* (characters) and stderr (items), its possible exit codes
    pc,            \* where the generator is
    buffer,        \* line 54
    line_str,      \* candidate of the latest run of the inner loop
    stderr_lines,  \* line 53
    drain,         \* the _read_stderr task: "idle", "running", "done"
    stdout_end,    \* "open", or how the stdout iteration ended
    stderr_end,    \* "open", or how the stderr iteration ended
    returncode,    \* _process.returncode as read at line 114
    waited,        \* _process.wait() has been called (line 113)
    err,           \* the exception that left the generator, or NoError
    chunks,        \* history: the stdout chunks received, in order
    stderr_seen,   \* history: the stderr items received, in order
    yielded,       \* history: the messages handed to the consumer
    transport_class,  \* _SubprocessCLITransport: what receive_messages is
                      \* bound to, and its _patched_for_streaming attribute
    calls          \* apply_patch: calls made, and calls the program has left

class_vars == <<transport_class, calls>>

vars == <<self, proc, pc, buffer, line_str, stderr_lines, drain, stdout_end,
          stderr_end, returncode, waited, err, chunks, stderr_seen, yielded,
          transport_class, calls>>

Connected == [process |-> TRUE, stdout_stream |-> TRUE, stderr_stream |-> TRUE]

\* The CLI processes explored.  `stdout` is the number of characters the
\* process still writes to stdout and `alphabet` what they are drawn from,
\* `stderr` the number of items it still writes to stderr, `returncodes` the
\* exit codes it may end with, `ends` the ways its streams may end,
\* `min_chunk` the length of the shortest chunk its stdout delivers (a text
\* stream delivers no empty chunk; the generator itself accepts one).
\* `patches` is the number of times the program calls apply_patch: once,
\* by the import of the module (line 136), or up to MaxCalls times.
EndKinds == {"eof", "ClosedResourceError"}

Environments ==
    { [self |-> Connected, patches |-> 1,
       proc |-> [stdout |-> MaxLen, alphabet |-> Chars \ {"{"}, stderr |-> 0,
                 returncodes |-> {<<0>>}, ends |-> {"eof"}, min_chunk |-> 1]],
      [self |-> Connected, patches |-> 1,
       proc |-> [stdout |-> MaxLen - 2, alphabet |-> Chars, stderr |-> 0,
                 returncodes |-> {<<0>>}, ends |-> {"eof"}, min_chunk |-> 0]],
      [self |-> Connected, patches |-> 1,
       proc |-> [stdout |-> 2, alphabet |-> Chars, stderr |-> MaxStderr,
                 returncodes |-> ReturnCodes, ends |-> EndKinds,
                 min_chunk |-> 0]] }
    \cup
    { [self |-> [Connected EXCEPT ![f] = FALSE], patches |-> MaxCalls,
       proc |-> [stdout |-> 2, alphabet |-> Chars, stderr |-> 1,
                 returncodes |-> {<<0>>, <<1>>}, ends |-> EndKinds,
                 min_chunk |-> 0]] :
         f \in {"process", "stdout_stream", "stderr_stream"} }

\* _SubprocessCLITransport as the SDK defines it
Unpatched == [receive_messages |-> "original", patched_for_streaming |-> FALSE]

Init ==
    /\ \E e \in Environments :
          /\ self = e.self
          /\ proc = e.proc
          /\ calls = [made |-> 0, left |-> e.patches]
    /\ transport_class = Unpatched
    /\ pc = "init"
    /\ buffer = <<>>
    /\ line_str = <<>>
    /\ stderr_lines = <<>>
    /\ drain = "idle"
    /\ stdout_end = "open"
    /\ stderr_end = "open"
    /\ returncode = None
    /\ waited = FALSE
    /\ err = NoError
    /\ chunks = <<>>
    /\ stderr_seen = <<>>
    /\ yielded = <<>>

\* all texts over the alphabet A of length n
TextsOfLen(A, n) == [1..n -> A]

\* ---------------------------------------------------------------- actions
\* apply_patch, lines 124-132, as a function of the class.
\* (mutant) the attribute is set and the method is left as it was
apply_patch_FlagOnly(cls) ==
    IF cls.patched_for_streaming
    THEN cls
    ELSE [cls EXCEPT !.patched_for_streaming = TRUE]

apply_patch(cls) ==
    IF cls.patched_for_streaming
    THEN cls
    ELSE [receive_messages |-> "patched", patched_for_streaming |-> TRUE]

\* A call of apply_patch: the one of line 136 when the module is imported,
\* or a later one by the program.
ApplyPatch ==
    /\ calls.left > 0
    /\ calls' = [made |-> calls.made + 1, left |-> calls.left - 1]
    /\ transport_class' = apply_patch(transport_class)
    /\ UNCHANGED <<self, proc, pc, buffer, line_str, stderr_lines, drain,
                   stdout_end, stderr_end, returncode, waited, err, chunks,
                   stderr_seen, yielded>>

\* receive_messages is the generator function of line 37
Patched == transport_class.receive_messages = "patched"

\* The test of line 50: the transport is not connected.
NotConnected_AnyStream(t) == ~t.stdout_stream \/ ~t.stderr_stream

NotConnected(t) == ~t.process \/ ~t.stdout_stream

\* The consumer's first __anext__: lines 50-69.
Start ==
    /\ pc = "init"
    /\ Patched
    /\ IF NotConnected(self)
       THEN /\ pc' = "raised"
            /\ err' = [type |-> "CLIConnectionError"]
            /\ drain' = drain
       ELSE /\ pc' = "read"
            /\ err' = err
            /\ drain' = "running"
    /\ UNCHANGED class_vars
    /\ UNCHANGED <<self, proc, buffer, line_str, stderr_lines, stdout_end,
                   stderr_end, returncode, waited, chunks, stderr_seen, yielded>>

\* Lines 76-95 from buffer `buf`, up to the next suspension of the generator.
RunLoop(buf) ==
    LET r == ProcessLines(buf)
    IN  /\ buffer' = r.buffer
        /\ line_str' = r.line_str
        /\ IF r.kind = "yield"
           THEN /\ pc' = "yield"
                /\ yielded' = Append(yielded,
                       [data |-> r.data, chunk |-> Len(chunks'), final |-> FALSE])
           ELSE /\ pc' = "read"
                /\ yielded' = yielded

\* The stdout stream delivers a chunk (line 72); lines 73-95 run.
RecvChunk ==
    /\ pc = "read"
    /\ Len(chunks) < MaxChunks
    /\ \E n \in proc.min_chunk..proc.stdout :
       \E chunk \in TextsOfLen(proc.alphabet, n) :
          /\ chunks' = Append(chunks, chunk)
          /\ proc' = [proc EXCEPT !.stdout = @ - Len(chunk)]
          /\ RunLoop(AppendChunk(buffer, chunk))
    /\ UNCHANGED class_vars
    /\ UNCHANGED <<self, stderr_lines, drain, stdout_end, stderr_end,
                   returncode, waited, err, stderr_seen>>

\* The consumer asks for the next message after the yield of line 88.
Resume ==
    /\ pc = "yield"
    /\ chunks' = chunks
    /\ RunLoop(buffer)
    /\ UNCHANGED class_vars
    /\ UNCHANGED <<self, proc, stderr_lines, drain, stdout_end, stderr_end,
                   returncode, waited, err, stderr_seen>>

\* Where the generator goes when the stdout iteration ends in way `how`:
\* exhaustion leaves the async for, ClosedResourceError is caught at lines
\* 97-99; both reach the end of the `async with` block.
AfterStdoutEnd_Propagate(how) ==
    IF how = "ClosedResourceError" THEN "raised" ELSE "join"

AfterStdoutEnd(how) == "join"

\* The stdout iteration ends, by exhaustion or by ClosedResourceError (lines
\* 72, 97-99); the task group's exit then waits for _read_stderr.
StdoutEnd ==
    /\ pc = "read"
    /\ \E how \in proc.ends :
          /\ stdout_end' = how
          /\ pc' = AfterStdoutEnd(how)
    /\ UNCHANGED class_vars
    /\ UNCHANGED <<self, proc, buffer, line_str, stderr_lines, drain,
                   stderr_end, returncode, waited, err, chunks, stderr_seen,
                   yielded>>

\* The exit of `async with anyio.create_task_group()` (line 68) returns once
\* the task started at line 69 is over.
TaskGroupOver_NoWait == TRUE

\* (mutant) the block is left as soon as the stdout iteration is over
TaskGroupOver_StdoutOnly == stdout_end # "open"

TaskGroupOver == drain = "done"

\* The task group is left (line 68) and lines 102-113 run up to the next
\* suspension: the final yield, the raise, or the wait for the process.
JoinAndFlush ==
    /\ pc = "join"
    /\ TaskGroupOver
    /\ LET r == Flush(buffer)
       IN  /\ err' = r.err
           /\ pc' = CASE r.kind = "yield" -> "yield_final"
                      [] r.kind = "raise" -> "raised"
                      [] OTHER -> "wait"
           /\ waited' = (r.kind = "pass")
           /\ yielded' = IF r.kind = "yield"
                         THEN Append(yielded, [data |-> r.data,
                                  chunk |-> Len(chunks), final |-> TRUE])
                         ELSE yielded
    /\ UNCHANGED class_vars
    /\ UNCHANGED <<self, proc, buffer, line_str, stderr_lines, drain,
                   stdout_end, stderr_end, returncode, chunks, stderr_seen>>

\* The consumer asks for the next message after the yield of line 104.
ResumeFinal ==
    /\ pc = "yield_final"
    /\ pc' = "wait"
    /\ waited' = TRUE
    /\ UNCHANGED class_vars
    /\ UNCHANGED <<self, proc, buffer, line_str, stderr_lines, drain,
                   stdout_end, stderr_end, returncode, err, chunks,
                   stderr_seen, yielded>>

\* _process.wait() returns; lines 114-121.
ProcessExit ==
    /\ pc = "wait"
    /\ \E rc \in proc.returncodes :
          /\ returncode' = rc
          /\ err' = ExitCorrelate(rc, stderr_lines)
          /\ pc' = IF ExitCorrelate(rc, stderr_lines) = NoError
                   THEN "done" ELSE "raised"
    /\ UNCHANGED class_vars
    /\ UNCHANGED <<self, proc, buffer, line_str, stderr_lines, drain,
                   stdout_end, stderr_end, waited, chunks, stderr_seen,
                   yielded>>

\* The consumer closes the generator while it is suspended: GeneratorExit at
\* line 88 is caught and the generator returns through the task group's exit
\* (lines 89-91, 68); at line 104, or before the first __anext__, the
\* generator just ends.
Close ==
    /\ pc \in {"init", "yield", "yield_final"}
    /\ Patched
    /\ pc' = IF pc = "yield" THEN "join_close" ELSE "closed"
    /\ UNCHANGED class_vars
    /\ UNCHANGED <<self, proc, buffer, line_str, stderr_lines, drain,
                   stdout_end, stderr_end, returncode, waited, err, chunks,
                   stderr_seen, yielded>>

\* The task group's exit after the return of line 91: _read_stderr is over.
JoinClose ==
    /\ pc = "join_close"
    /\ TaskGroupOver
    /\ pc' = "closed"
    /\ UNCHANGED class_vars
    /\ UNCHANGED <<self, proc, buffer, line_str, stderr_lines, drain,
                   stdout_end, stderr_end, returncode, waited, err, chunks,
                   stderr_seen, yielded>>

\* _read_stderr is at line 60 and its stream has an item for it; the
\* generator's position plays no part.
DrainReady_DecoderReading ==
    /\ pc = "read"
    /\ drain = "running"
    /\ self.stderr_stream
    /\ proc.stderr > 0

DrainReady ==
    /\ drain = "running"
    /\ self.stderr_stream
    /\ proc.stderr > 0

\* stderr_lines.append(line.strip()) of line 61
LogAppend_Raw(log, line) == Append(log, line)

LogAppend(log, line) == Append(log, Strip(line))

\* _read_stderr receives an item (lines 60-61).
DrainLine ==
    /\ DrainReady
    /\ \E line \in StderrItems :
          /\ stderr_lines' = LogAppend(stderr_lines, line)
          /\ stderr_seen' = Append(stderr_seen, line)
    /\ proc' = [proc EXCEPT !.stderr = @ - 1]
    /\ UNCHANGED class_vars
    /\ UNCHANGED <<self, pc, buffer, line_str, drain, stdout_end, stderr_end,
                   returncode, waited, err, chunks, yielded>>

\* _read_stderr ends: no stream (line 58), the stream is exhausted, or it
\* raises ClosedResourceError (lines 62-64).
DrainEnd ==
    /\ drain = "running"
    /\ IF self.stderr_stream
       THEN \E how \in proc.ends : stderr_end' = how
       ELSE stderr_end' = stderr_end
    /\ drain' = "done"
    /\ UNCHANGED class_vars
    /\ UNCHANGED <<self, proc, pc, buffer, line_str, stderr_lines, stdout_end,
                   returncode, waited, err, chunks, stderr_seen, yielded>>

Next ==
    \/ ApplyPatch
    \/ Start
    \/ RecvChunk
    \/ Resume
    \/ StdoutEnd
    \/ JoinAndFlush
    \/ ResumeFinal
    \/ ProcessExit
    \/ Close
    \/ JoinClose
    \/ DrainLine
    \/ DrainEnd

Spec == Init /\ [][Next]_vars

\* The cooperative scheduler runs a task that is ready: _read_stderr when a
\* line is there, the generator when the task group it waits for is over.
\* What the consumer and the process do (pulling, closing, writing, ending a
\* stream, exiting) is left to them.
\* The processes that write little to stdout, with every way of writing to
\* stderr, of ending the streams and of exiting.
ShortInit == Init /\ proc.stdout <= 2

ShortSpec == ShortInit /\ [][Next]_vars

SchedulerFair ==
    /\ Spec
    /\ WF_vars(DrainLine)
    /\ WF_vars(JoinAndFlush)
    /\ WF_vars(JoinClose)

TypeOK ==
    /\ pc \in {"init", "read", "yield", "join", "yield_final", "wait", "done",
               "raised", "join_close", "closed"}
    /\ drain \in {"idle", "running", "done"}
    /\ Len(chunks) <= MaxChunks
    /\ transport_class.receive_messages \in {"original", "patched"}
    /\ transport_class.patched_for_streaming \in BOOLEAN
    /\ calls.made \in 0..MaxCalls
    /\ calls.made + calls.left <= MaxCalls

\* The scheduler is fair, the module is imported (its line 136 runs), the
\* consumer goes on (it pulls or it closes), and the process ends: its
\* stdout and its stderr end and it exits.
ConsumerStep == Start \/ Resume \/ ResumeFinal \/ Close

FairSpec ==
    /\ ShortSpec
    /\ WF_vars(ApplyPatch)
    /\ WF_vars(DrainLine)
    /\ WF_vars(JoinAndFlush)
    /\ WF_vars(JoinClose)
    /\ WF_vars(ConsumerStep)
    /\ WF_vars(StdoutEnd)
    /\ WF_vars(DrainEnd)
    /\ WF_vars(ProcessExit)

\* =================================================================== claims
\* Helpers of the statements below (not part of the program).

RECURSIVE Flatten(_)
Flatten(cs) == IF cs = <<>> THEN <<>> ELSE Head(cs) \o Flatten(Tail(cs))

\* everything received on stdout so far
Received == Flatten(chunks)

\* the newline-terminated lines of text t, in order, without their newline
RECURSIVE LinesFrom(_, _, _)
LinesFrom(t, i, cur) ==
    IF i > Len(t) THEN <<>>
    ELSE IF t[i] = NL THEN <<cur>> \o LinesFrom(t, i + 1, <<>>)
    ELSE LinesFrom(t, i + 1, Append(cur, t[i]))

CompleteLines(t) == LinesFrom(t, 1, <<>>)

\* what follows the last newline of t
RECURSIVE TailFrom(_, _, _)
TailFrom(t, i, cur) ==
    IF i > Len(t) THEN cur
    ELSE IF t[i] = NL THEN TailFrom(t, i + 1, <<>>)
    ELSE TailFrom(t, i + 1, Append(cur, t[i]))

Unterminated(t) == TailFrom(t, 1, <<>>)

Blank(t) == \A i \in 1..Len(t) : t[i] \in Whitespace

\* json.dumps
DigitChars == <<"0", "1", "2", "3", "4", "5", "6", "7", "8", "9">>
RECURSIVE Digits(_)
Digits(n) ==
    IF n < 10 THEN <<DigitChars[n + 1]>> ELSE Digits(n \div 10) \o Digits(n % 10)

RECURSIVE Serialize(_)
Serialize(v) ==
    CASE v[1] = "num" -> Digits(v[2])
      [] v[1] = "arr" -> IF Len(v) = 1 THEN <<"[", "]">>
                         ELSE <<"[">> \o Serialize(v[2]) \o <<"]">>
      [] OTHER -> <<"{", "}">>

\* t is serialize(V) for a structured value V
IsSerialized(t) == json_loads(t).ok /\ Serialize(json_loads(t).val) = t
ValueOf(t) == json_loads(t).val

Data == [i \in 1..Len(yielded) |-> yielded[i].data]

\* the generator is past the end-of-stream flush of lines 102-110
AfterFlush == pc \in {"yield_final", "wait", "done", "raised"} /\ stdout_end # "open"

\* the output sequence has ended by itself (not closed by the consumer)
Ended == pc \in {"done", "raised"} /\ stdout_end # "open"

\* ----------------------------------------------------------------- C1
C1_FirstFailing(L, i) ==
    /\ ~Blank(L[i])
    /\ ~json_loads(Strip(L[i])).ok
    /\ \A j \in 1..(i - 1) : Blank(L[j]) \/ json_loads(Strip(L[j])).ok

\* C1: no message is lost through deferral.  A newline-terminated line that
\* fails to parse when the loop first sees it stays at the front of the
\* buffer while the generator waits for more input, and once the output
\* sequence has ended every complete valid message line received after such
\* a line has been emitted.
C1_NoMessageLost ==
    LET L == CompleteLines(Received)
    IN  \A i \in 1..Len(L) :
          C1_FirstFailing(L, i) =>
            /\ pc = "read" =>
                 /\ Len(buffer) > Len(L[i])
                 /\ SubSeq(buffer, 1, Len(L[i]) + 1) = L[i] \o <<NL>>
            /\ Ended =>
                 \A k \in (i + 1)..Len(L) :
                    json_loads(Strip(L[k])).ok =>
                       \E m \in 1..Len(yielded) :
                          yielded[m].data = ValueOf(Strip(L[k]))

\* ----------------------------------------------------------------- C2
C2_Case ==
    /\ Len(chunks) = 2
    /\ Received # <<>>
    /\ Received[Len(Received)] = NL
    /\ IsSerialized(SubSeq(Received, 1, Len(Received) - 1))

\* C2: when exactly two chunks were received and together they are
\* serialize(V) followed by one newline, then after the stream has closed
\* and the flush has run the messages emitted are exactly <<V>> and no
\* decoding or connection error was raised.
C2_SplitRoundTrip ==
    (AfterFlush /\ C2_Case) =>
        /\ Data = <<ValueOf(SubSeq(Received, 1, Len(Received) - 1))>>
        /\ ~yielded[1].final
        /\ err.type \notin {"CLIJSONDecodeError", "CLIConnectionError"}

C2_Witness ==
    /\ C2_Case /\ pc = "done"
    /\ chunks[1] # <<>> /\ chunks[2] # <<>> /\ Len(chunks[2]) >= 2
    /\ Data = << <<"arr", <<"num", 1>>>> >>

\* ----------------------------------------------------------------- C3
JoinLines(L, a, b) == Join(SubSeq(L, a, b))

C3_Document(L, a, b) ==
    /\ a < b
    /\ \A j \in 1..(a - 1) : Blank(L[j]) \/ json_loads(Strip(L[j])).ok
    /\ ~Blank(L[a])
    /\ \A c \in a..(b - 1) : ~json_loads(JoinLines(L, a, c)).ok
    /\ json_loads(JoinLines(L, a, b)).ok

\* C3: a JSON document spread over two or more newline-terminated lines
\* (after lines that were blank or complete messages) is emitted by the
\* loop once its last line has been received, the complete message lines
\* after it are emitted too, and no CLIJSONDecodeError ends the run.
C3_MultiLineDocument ==
    LET L == CompleteLines(Received)
    IN  \A a \in 1..Len(L), b \in 1..Len(L) :
          C3_Document(L, a, b) =>
            /\ pc = "read" =>
                 \E m \in 1..Len(yielded) :
                    /\ yielded[m].data = ValueOf(JoinLines(L, a, b))
                    /\ ~yielded[m].final
            /\ Ended =>
                 \A k \in (b + 1)..Len(L) :
                    json_loads(Strip(L[k])).ok =>
                       \E m \in 1..Len(yielded) :
                          yielded[m].data = ValueOf(Strip(L[k]))
            /\ err.type # "CLIJSONDecodeError"

\* ----------------------------------------------------------------- C4
\* index of the chunk that delivered character number n of the stream
ChunkOf(n) ==
    CHOOSE k \in 1..Len(chunks) :
        /\ Len(Flatten(SubSeq(chunks, 1, k))) >= n
        /\ Len(Flatten(SubSeq(chunks, 1, k - 1))) < n

C4_Case ==
    /\ Len(chunks) >= 1
    /\ Len(CompleteLines(chunks[1])) = 1
    /\ json_loads(Strip(CompleteLines(chunks[1])[1])).ok
    /\ Unterminated(chunks[1]) # <<>>

\* C4: when the first chunk is one complete message line followed by a
\* non-empty unterminated text, the first message is emitted while that
\* chunk is processed; while no later chunk has brought a newline the loop
\* emits nothing more; and when a later chunk brings the newline that
\* completes a valid second line, that message is emitted while that chunk
\* is processed.
C4_FirstNowSecondLater ==
    C4_Case =>
      LET L == CompleteLines(Received)
      IN  /\ Len(yielded) >= 1
          /\ yielded[1] = [data |-> ValueOf(Strip(L[1])), chunk |-> 1,
                           final |-> FALSE]
          /\ Len(L) = 1 =>
                \/ Len(yielded) = 1
                \/ /\ stdout_end # "open"
                   /\ Len(yielded) = 2
                   /\ yielded[2].final
          /\ (Len(L) >= 2 /\ json_loads(Strip(L[2])).ok) =>
                /\ Len(yielded) >= 2
                /\ yielded[2] =
                     [data |-> ValueOf(Strip(L[2])),
                      chunk |-> ChunkOf(Len(L[1]) + Len(L[2]) + 2),
                      final |-> FALSE]

C4_Witness ==
    /\ C4_Case
    /\ Len(chunks) = 2
    /\ Len(chunks[2]) >= 2
    /\ Len(yielded) = 2
    /\ yielded[1].chunk = 1
    /\ yielded[2].chunk = 2
    /\ ~yielded[2].final
    /\ yielded[1].data # yielded[2].data

\* ----------------------------------------------------------------- C5
NonBlank(L) == SelectSeq(L, LAMBDA t : ~Blank(t))

C5_Case ==
    /\ Len(chunks) = 1
    /\ Unterminated(chunks[1]) = <<>>
    /\ \A i \in 1..Len(CompleteLines(chunks[1])) :
          IsSerialized(CompleteLines(chunks[1])[i])

\* C5: when the only chunk received consists of K lines, each serialize(V)
\* followed by a newline, then once the loop has gone through it the
\* messages emitted are exactly the K values in line order (none for K = 0)
\* and the flush adds none; and in every state the messages emitted by the
\* loop are the values of the first non-blank complete lines received, in
\* the order of the lines, emitted in the order of the chunks.
C5_KLinesInOrder ==
    LET L  == CompleteLines(Received)
        NB == NonBlank(L)
    IN  /\ (pc \in {"read", "join", "wait", "done", "raised"} /\ C5_Case) =>
              /\ Len(yielded) = Len(L)
              /\ \A i \in 1..Len(L) :
                    yielded[i] = [data |-> ValueOf(L[i]), chunk |-> 1,
                                  final |-> FALSE]
        /\ \A m \in 1..Len(yielded) :
              ~yielded[m].final =>
                 /\ m <= Len(NB)
                 /\ json_loads(Strip(NB[m])).ok
                 /\ yielded[m].data = ValueOf(Strip(NB[m]))
                 /\ m > 1 => yielded[m - 1].chunk <= yielded[m].chunk

C5_Witness ==
    /\ C5_Case
    /\ pc = "done"
    /\ Data = << <<"num", 1>>, <<"num", 11>> >>

\* ----------------------------------------------------------------- C6
C6_NoErrorWhileOpen ==
    stdout_end = "open" => err.type \in {"none", "CLIConnectionError"}

C6_Retry ==
    (pc = "read" /\ line_str # <<>> /\ Len(chunks') = Len(chunks) + 1) =>
        /\ line_str' = line_str
        /\ buffer' = buffer \o chunks'[Len(chunks')]
        /\ pc' = "read"
        /\ err' = NoError

\* C6: while stdout is open no decoding error leaves the generator, and
\* when a chunk arrives after a run of the loop that ended on a candidate
\* that failed to parse, the loop parses that same candidate again, with
\* nothing removed from the buffer and no error raised.
C6_FailureDeferred == [](C6_NoErrorWhileOpen) /\ [][C6_Retry]_vars

C6_Witness ==
    /\ pc = "read"
    /\ Len(chunks) = 2
    /\ Len(CompleteLines(chunks[1])) = 1
    /\ line_str = Strip(CompleteLines(chunks[1])[1])
    /\ line_str # <<>>
    /\ chunks[2] # <<>>
    /\ yielded = <<>>

\* ----------------------------------------------------------------- C7
LooksLikeJson(t) == t # <<>> /\ t[1] \in {"{", "["}

C7_Case ==
    /\ AfterFlush
    /\ Strip(buffer) # <<>>
    /\ ~json_loads(Strip(buffer)).ok
    /\ LooksLikeJson(Strip(buffer))

\* C7: once the flush has run, if the trimmed buffer is non-empty, does not
\* parse and begins with "{" or "[", the generator has raised
\* CLIJSONDecodeError holding the untrimmed buffer and the JSONDecodeError
\* of the trimmed text, without awaiting the exit status.
C7_DecodeErrorOnOpener ==
    C7_Case =>
        /\ pc = "raised"
        /\ err = [type |-> "CLIJSONDecodeError", line |-> buffer,
                  original_error |-> [type |-> "JSONDecodeError",
                                      doc |-> Strip(buffer)]]
        /\ ~waited
        /\ \A m \in 1..Len(yielded) : ~yielded[m].final

C7_Witness ==
    /\ C7_Case
    /\ pc = "raised"
    /\ Strip(buffer)[1] = "{"
    /\ Strip(buffer) # buffer

\* ----------------------------------------------------------------- C8
C8_Case ==
    /\ AfterFlush
    /\ \/ Strip(buffer) = <<>>
       \/ /\ ~json_loads(Strip(buffer)).ok
          /\ ~LooksLikeJson(Strip(buffer))

\* C8: once the flush has run, if the buffer is whitespace only, or is
\* non-blank, does not parse and does not begin with "{" or "[", the flush
\* emitted nothing and raised nothing, and the exit status was awaited.
C8_NoiseDiscarded ==
    C8_Case =>
        /\ \A m \in 1..Len(yielded) : ~yielded[m].final
        /\ err.type \in {"none", "ProcessError"}
        /\ pc \in {"wait", "done", "raised"}
        /\ waited

C8_Witness ==
    /\ C8_Case
    /\ pc = "done"
    /\ Strip(buffer) # <<>>
    /\ Len(yielded) = 1

\* ----------------------------------------------------------------- C9
C9_Case ==
    /\ AfterFlush
    /\ Strip(buffer) # <<>>
    /\ json_loads(Strip(buffer)).ok

\* C9: once the flush has run, if the trimmed buffer is non-empty and
\* parses, its value is the last message emitted, it is the only one the
\* flush emitted, it was emitted after the last chunk, and the exit status
\* had not been awaited when it was emitted.
C9_FinalMessage ==
    C9_Case =>
        /\ Len(yielded) >= 1
        /\ yielded[Len(yielded)] = [data |-> ValueOf(Strip(buffer)),
                                    chunk |-> Len(chunks), final |-> TRUE]
        /\ \A m \in 1..(Len(yielded) - 1) : ~yielded[m].final
        /\ pc = "yield_final" => (~waited /\ returncode = None)
        /\ err.type \in {"none", "ProcessError"}

C9_Witness ==
    /\ C9_Case
    /\ pc = "done"
    /\ waited
    /\ Len(yielded) = 2
    /\ Strip(buffer) # buffer

\* ---------------------------------------------------------------- C10
C10_SameLetter(c, d) ==
    \/ c = d
    \/ <<c, d>> \in {<<"E", "e">>, <<"R", "r">>, <<"O", "o">>}

C10_HasMarker(text) ==
    \E i \in 0..(Len(text) - 5) :
        \A k \in 1..5 : C10_SameLetter(text[i + k], ErrorWord[k])

C10_Correlated == waited /\ pc \in {"done", "raised"}

\* C10: once the exit status has been read, ProcessError has been raised if
\* and only if the status is neither None nor 0 and the trimmed diagnostic
\* lines joined by newlines contain "error" in any letter case; it then holds
\* the exit code and the joined text; otherwise the generator completed
\* without error.
C10_ProcessFailure ==
    C10_Correlated =>
        LET text == Join(stderr_lines)
        IN  IF returncode \notin {None, <<0>>} /\ C10_HasMarker(text)
            THEN /\ pc = "raised"
                 /\ err = [type |-> "ProcessError",
                           exit_code |-> returncode[1], stderr |-> text]
            ELSE /\ pc = "done"
                 /\ err = NoError

C10_Witness ==
    /\ C10_Correlated
    /\ pc = "raised"
    /\ err.type = "ProcessError"
    /\ err.exit_code = 1
    /\ stderr_lines = << <<"o", "k">>, <<"E", "r", "r", "O", "R">> >>

\* ----------------------------------------------------------------- C11
\* the first __anext__ has run
Started == pc = "raised" \/ drain # "idle"

\* nothing was read, emitted or started
C11_Untouched ==
    /\ drain = "idle"
    /\ chunks = <<>>
    /\ stderr_seen = <<>>
    /\ yielded = <<>>

\* C11 as stated: once decoding is requested with the stdout stream or the
\* stderr stream absent, CLIConnectionError is raised at once, nothing having
\* been read, emitted or started.
C11_EitherStreamAbsent ==
    (Started /\ (~self.stdout_stream \/ ~self.stderr_stream)) =>
        /\ pc = "raised"
        /\ err = [type |-> "CLIConnectionError"]
        /\ C11_Untouched

\* C11: once decoding is requested with the process or the stdout stream
\* absent, CLIConnectionError is raised at once, nothing having been read,
\* emitted or started; with only the stderr stream absent no
\* CLIConnectionError is raised, decoding goes on and no stderr line is read.
C11_NotConnected ==
    Started =>
        /\ (~self.process \/ ~self.stdout_stream) =>
               /\ pc = "raised"
               /\ err = [type |-> "CLIConnectionError"]
               /\ C11_Untouched
        /\ (self.process /\ self.stdout_stream) =>
               /\ err.type # "CLIConnectionError"
               /\ drain # "idle"
               /\ ~self.stderr_stream => stderr_seen = <<>>

C11_Witness ==
    /\ ~self.stdout_stream
    /\ pc = "raised"
    /\ err = [type |-> "CLIConnectionError"]

\* ----------------------------------------------------------------- C12
\* the consumer has closed the sequence
ConsumerClosed == pc \in {"join_close", "closed"}

\* C12: once the consumer has closed the sequence at the emission of the
\* first message, the read loop and _read_stderr both end and the generator
\* reaches its closed state, with no error.
C12_BothTerminate ==
    (ConsumerClosed /\ Len(yielded) = 1 /\ ~yielded[1].final)
        ~> (pc = "closed" /\ drain = "done" /\ err = NoError)

\* ----------------------------------------------------------------- C13
\* C13: once the consumer has closed the sequence, no stdout chunk and no
\* stderr line is read and the exit status is not awaited.
C13_NoReadAfterClose ==
    [][ConsumerClosed =>
          /\ chunks' = chunks
          /\ stderr_seen' = stderr_seen
          /\ waited' = waited
          /\ returncode' = returncode]_vars

\* ----------------------------------------------------------------- C14
\* the exit status is being awaited or has been read
ExitAwaited == pc = "wait" \/ waited \/ returncode # None

C14_DrainOverFirst ==
    ExitAwaited =>
        /\ drain = "done"
        /\ self.stderr_stream => stderr_end # "open"

C14_LogFrozen == ExitAwaited => stderr_lines' = stderr_lines

\* C14: when the exit status is awaited and stderr_lines is read,
\* _read_stderr has seen the end of its stream (or had no stream), and
\* stderr_lines is not appended to from then on.
C14_CompleteLog == [](C14_DrainOverFirst) /\ [][C14_LogFrozen]_vars

C14_Witness ==
    /\ pc = "raised"
    /\ returncode = <<1>>
    /\ Len(stderr_lines) = 2
    /\ err.type = "ProcessError"

\* ----------------------------------------------------------------- C15
\* the generator is in its read loop, reading or suspended at line 88, and
\* both streams are open
BothOpen ==
    /\ pc \in {"read", "yield"}
    /\ stdout_end = "open"
    /\ self.stderr_stream
    /\ stderr_end = "open"

\* C15: while both streams are open, a stderr line that is there can be
\* read by _read_stderr whether the generator is reading or suspended at a
\* yield, and a stdout chunk that is there can be read by the generator
\* that the consumer is pulling whatever _read_stderr is doing.
C15_NeverBlocked ==
    /\ (BothOpen /\ proc.stderr > 0) => ENABLED DrainLine
    /\ (pc = "read" /\ stdout_end = "open" /\ Len(chunks) < MaxChunks
          /\ proc.stdout >= proc.min_chunk) => ENABLED RecvChunk

C15_Witness ==
    /\ BothOpen
    /\ pc = "yield"
    /\ proc.stderr > 0
    /\ Len(stderr_seen) = 1
    /\ ENABLED DrainLine

\* ----------------------------------------------------------------- C16
\* The lifecycle state of the generator.  Between the GeneratorExit caught at
\* line 89 and the end of the task group the generator is in none of the
\* four states of the lifecycle: it is closing.
DecoderState ==
    CASE pc = "init" -> "NEW"
      [] pc \in {"read", "yield", "join"} -> "READING"
      [] pc \in {"yield_final", "wait"} -> "DRAINED"
      [] pc = "done" -> "EXITED"
      [] pc = "raised" -> "FAILED"
      [] pc = "join_close" -> "CLOSING"
      [] OTHER -> "TERMINATED"

C16_Transitions ==
    { <<"NEW", "READING">>, <<"READING", "DRAINED">>, <<"DRAINED", "EXITED">>,
      <<"NEW", "TERMINATED">>, <<"READING", "TERMINATED">>,
      <<"DRAINED", "TERMINATED">>,
      <<"NEW", "FAILED">>, <<"READING", "FAILED">>, <<"DRAINED", "FAILED">> }

\* the consumer closes the sequence in this step
C16_Cancels == pc \in {"init", "yield", "yield_final"} /\ pc' \in {"join_close", "closed"}

C16_Step ==
    /\ DecoderState' # DecoderState =>
            <<DecoderState, DecoderState'>> \in C16_Transitions
    /\ (DecoderState = "READING" /\ DecoderState' = "DRAINED") =>
            /\ Flush(buffer).kind # "raise"
            /\ ~ExitAwaited
            /\ yielded' = IF Flush(buffer).kind = "yield"
                           THEN Append(yielded, [data |-> Flush(buffer).data,
                                    chunk |-> Len(chunks), final |-> TRUE])
                           ELSE yielded
    /\ C16_Cancels => (DecoderState' = "TERMINATED" /\ err' = NoError)

\* C16: the lifecycle changes only by READING -> DRAINED -> EXITED, the flush
\* being made on entry to DRAINED and the exit status awaited only from
\* there on; a close by the consumer leads in one step, from whatever state,
\* to TERMINATED with no error; nothing leaves EXITED or TERMINATED and
\* nothing returns to READING.
C16_Lifecycle ==
    /\ [](ExitAwaited => DecoderState \in {"DRAINED", "EXITED", "FAILED"})
    /\ [][C16_Step]_vars

\* ----------------------------------------------------------------- C17
\* what the loop has consumed of the text received
Consumed == SubSeq(Received, 1, Len(Received) - Len(buffer))

\* the generator is suspended in its read loop: at line 72 or at line 88
Suspended == pc \in {"read", "yield"}

\* C17: whenever the generator is suspended in its read loop, the text
\* received is a consumed prefix followed by the buffer; the prefix is made
\* of newline-terminated lines, each blank or parsed, the parsed ones being
\* the messages emitted, in order; and a line that failed to parse is at the
\* head of the buffer exactly as it was received, newline included.
C17_BufferInvariant ==
    Suspended =>
        /\ Len(buffer) <= Len(Received)
        /\ Received = Consumed \o buffer
        /\ Unterminated(Consumed) = <<>>
        /\ LET L == NonBlank(CompleteLines(Consumed))
           IN  /\ \A i \in 1..Len(L) : json_loads(Strip(L[i])).ok
               /\ Data = [i \in 1..Len(L) |-> ValueOf(Strip(L[i]))]
        /\ (pc = "read" /\ HasNewline(buffer)) =>
               LET line == SubSeq(buffer, 1, FirstNewline(buffer) - 1)
               IN  /\ ~Blank(line)
                   /\ ~json_loads(Strip(line)).ok
                   /\ line_str = Strip(line)

C17_Witness ==
    /\ pc = "read"
    /\ Len(yielded) = 1
    /\ Consumed # <<>>
    /\ buffer = <<SP, "]", NL>>

\* ----------------------------------------------------------------- C18
C18_Trimmed ==
    stderr_lines = [i \in 1..Len(stderr_seen) |-> Strip(stderr_seen[i])]

\* stderr_lines changes only by _read_stderr appending the line it has just
\* read, the generator staying where it is
C18_OnlyDrainAppends ==
    stderr_lines' # stderr_lines =>
        /\ drain = "running" /\ drain' = "running"
        /\ Len(stderr_seen') = Len(stderr_seen) + 1
        /\ Len(stderr_lines') = Len(stderr_lines) + 1
        /\ SubSeq(stderr_lines', 1, Len(stderr_lines)) = stderr_lines
        /\ UNCHANGED <<pc, buffer, yielded, err>>

\* the end of the stderr stream, of either kind, ends _read_stderr with the
\* lines collected and no error
C18_CloseIsNormal ==
    (stderr_end = "open" /\ stderr_end' # "open") =>
        /\ drain = "running" /\ drain' = "done"
        /\ UNCHANGED <<pc, err, stderr_lines>>

\* C18: stderr_lines is at every moment the trimmed stderr lines read so
\* far, in order; it only grows, by _read_stderr appending; and the stderr
\* stream ending, by exhaustion or by ClosedResourceError, ends
\* _read_stderr without an error and without a line lost.
C18_DiagnosticLog ==
    /\ [](C18_Trimmed)
    /\ [][C18_OnlyDrainAppends /\ C18_CloseIsNormal]_vars

C18_Witness ==
    /\ stderr_end = "ClosedResourceError"
    /\ drain = "done"
    /\ stderr_seen = << <<SP, "e", "r", "r">>, <<"o", "r", NL>> >>
    /\ stderr_lines = << <<"e", "r", "r">>, <<"o", "r">> >>
    /\ pc = "done"

\* ----------------------------------------------------------------- C19
\* the ways the output sequence ends
NaturalCompletion == pc = "done" /\ err = NoError
MessageDecodeError == pc = "raised" /\ err.type = "CLIJSONDecodeError"
ProcessFailure == pc = "raised" /\ err.type = "ProcessError"
Cancelled == pc = "closed" /\ err = NoError

Terminal == pc \in {"done", "raised", "closed"}

C19_Outcome ==
    \/ NaturalCompletion
    \/ MessageDecodeError
    \/ ProcessFailure
    \/ Cancelled

\* C19: with a fair scheduler, a consumer that goes on and a process whose
\* stdout ends, whose stderr ends and which exits, the generator of a
\* connected transport ends; it ends in natural completion,
\* CLIJSONDecodeError, ProcessError or by the consumer's close, and emits
\* nothing afterwards.
C19_FiniteSequence ==
    /\ ~NotConnected(self) => <>Terminal
    /\ []((Terminal /\ ~NotConnected(self)) => C19_Outcome)
    /\ [][Terminal => (yielded' = yielded /\ pc' = pc /\ err' = err)]_vars

C19_Witness ==
    /\ ProcessFailure
    /\ Len(yielded) = 1
    /\ stdout_end # "open"
    /\ stderr_end # "open"

\* ----------------------------------------------------------------- C20
\* the step in which the stdout iteration ends raises nothing and keeps the
\* messages and the buffer
C20_EndStep ==
    (stdout_end = "open" /\ stdout_end' = "ClosedResourceError") =>
        /\ pc' = "join"
        /\ UNCHANGED <<err, yielded, buffer>>

\* the generator has left the task group
C20_Flushed == pc \in {"yield_final", "wait", "done", "raised", "closed"}

C20_FlushAndExit ==
    (stdout_end = "ClosedResourceError" /\ C20_Flushed) =>
        LET f == Flush(buffer)
            last == yielded[Len(yielded)]
        IN  /\ err.type \in {"none", "CLIJSONDecodeError", "ProcessError"}
            /\ \A i \in 1..Len(yielded) :
                  yielded[i].final => (i = Len(yielded) /\ f.kind = "yield")
            /\ f.kind = "yield" =>
                  /\ yielded # <<>>
                  /\ last = [data |-> f.data, chunk |-> Len(chunks),
                              final |-> TRUE]
            /\ f.kind = "raise" => (pc = "raised" /\ err = f.err)
            /\ (pc = "done" \/ (pc = "raised" /\ f.kind # "raise")) =>
                  /\ waited
                  /\ err = ExitCorrelate(returncode, stderr_lines)

\* C20: when the stdout iteration ends by ClosedResourceError the generator
\* raises nothing for it and keeps what it has emitted; the flush of the
\* buffer and the exit correlation follow as after an exhausted stream:
\* what is emitted last and what is raised are Flush(buffer) and
\* ExitCorrelate(returncode, stderr_lines).
C20_ClosedLikeEof == [](C20_FlushAndExit) /\ [][C20_EndStep]_vars

C20_Witness ==
    /\ stdout_end = "ClosedResourceError"
    /\ pc = "raised"
    /\ err.type = "ProcessError"
    /\ Len(yielded) = 1
    /\ ~yielded[1].final
    /\ returncode = <<-9>>

\* ----------------------------------------------------------------- C21
\* stdout is over and _read_stderr is not: its stream is still open
C21_DrainPending ==
    /\ stdout_end # "open"
    /\ drain # "done" \/ (self.stderr_stream /\ stderr_end = "open")

\* nothing of lines 102-121 has happened
C21_NothingDelivered ==
    /\ pc = "join"
    /\ err = NoError
    /\ ~ExitAwaited
    /\ \A i \in 1..Len(yielded) : ~yielded[i].final

\* the step that delivers the result of the flush is taken with
\* _read_stderr over
C21_Delivery ==
    (pc = "join" /\ pc' # "join") =>
        /\ drain = "done"
        /\ pc' = CASE Flush(buffer).kind = "yield" -> "yield_final"
                   [] Flush(buffer).kind = "raise" -> "raised"
                   [] OTHER -> "wait"
        /\ err' = Flush(buffer).err

\* C21: once stdout is over, the final message or CLIJSONDecodeError of the
\* flush is delivered only when _read_stderr has finished: as long as the
\* stderr stream is open the generator waits, with no flush result and no
\* exit correlation.
C21_FlushWaitsForDrain ==
    /\ [](C21_DrainPending => C21_NothingDelivered)
    /\ [][C21_Delivery]_vars

C21_Witness ==
    /\ C21_DrainPending
    /\ Flush(buffer).kind = "raise"
    /\ Len(stderr_seen) = 1
    /\ pc = "join"

\* ----------------------------------------------------------------- C22
\* C22: when the flush has raised CLIJSONDecodeError the generator is over
\* with that error: the exit status is not awaited and no ProcessError
\* follows, whatever the exit status and stderr_lines; and an error, once
\* raised, is the only one of the run.
C22_DecodeErrorFirst ==
    /\ [](err.type = "CLIJSONDecodeError" =>
            (pc = "raised" /\ ~ExitAwaited /\ err = Flush(buffer).err))
    /\ [][err # NoError => (err' = err /\ pc' = pc /\ returncode' = returncode
                               /\ waited' = waited)]_vars

C22_Witness ==
    /\ err.type = "CLIJSONDecodeError"
    /\ C10_HasMarker(Join(stderr_lines))
    /\ proc.returncodes = ReturnCodes
    /\ stderr_end # "open"

\* ----------------------------------------------------------------- C23
\* C23: once apply_patch has been called, however many times,
\* receive_messages is the patched generator function and
\* _patched_for_streaming is set; and a call that is not the first leaves
\* the class as it is.
C23_Idempotent ==
    /\ [](calls.made >= 1 =>
            transport_class = [receive_messages |-> "patched",
                               patched_for_streaming |-> TRUE])
    /\ [][(calls.made >= 1 /\ calls'.made = calls.made + 1) =>
             transport_class' = transport_class]_vars
    /\ [](apply_patch(apply_patch(transport_class))
             = apply_patch(transport_class))

C23_Witness ==
    /\ calls.made = MaxCalls
    /\ Patched
    /\ transport_class.patched_for_streaming

====
